---- MODULE Spec2Model ----
(***************************************************************************)
(* A model of the retrieval-augmented chat backend (rag-mini-project):     *)
(* the two Qdrant collections, the /upload_document, /chat and             *)
(* /end_session handlers of backend/main.py and the helpers they call.     *)
(*                                                                         *)
(* Strings are sequences of atoms.  An atom is either a separator that the *)
(* code looks at ("\n", " ") or an opaque piece of text.  "" is << >>.     *)
(***************************************************************************)
EXTENDS Integers, Sequences, FiniteSets, TLC

(***************************************************************************)
(* Bounds of the model.                                                    *)
(***************************************************************************)
\* points in the knowledge base collection
MaxKb == 2
\* points in the chat history collection, concurrent specification
MaxHist == 2
\* points in the chat history collection, sequential specification
MaxSeqHist == 12
\* points in the chat history collection, function-level specification
MaxFnHist == 3
\* points in the chat history collection, specification of two exchanges at once
MaxRaceHist == 6
\* sentences of a text given to the chunker
MaxSentences == 3
\* pages of a PDF given to the document loader
MaxPages == 2
\* points in the knowledge base collection, function-level specification
MaxFnKb == 3
\* session ids /chat generates, specification of the service over restarts
MaxMinted == 2

(***************************************************************************)
(* Program constants.                                                      *)
(***************************************************************************)
\* search_knowledge_base(..., top_k: int = 5)
TOP_K == 5
\* retrieve_chat_context(..., max_turns: int = 4)
MAX_TURNS == 4

KB_COLLECTION == "rag_collection"
CHAT_HISTORY_COLLECTION == "chat_history_collection"

(***************************************************************************)
(* String helpers (Python str methods used by the code).                   *)
(***************************************************************************)
NL == "\n"
SP == " "
Whitespace == {NL, SP}

\* str.strip(): drop leading and trailing whitespace atoms.
RECURSIVE LStrip(_)
LStrip(s) ==
    IF s = << >> THEN << >>
    ELSE IF Head(s) \in Whitespace THEN LStrip(Tail(s)) ELSE s

RECURSIVE RStrip(_)
RStrip(s) ==
    IF s = << >> THEN << >>
    ELSE IF s[Len(s)] \in Whitespace THEN RStrip(SubSeq(s, 1, Len(s) - 1)) ELSE s

Strip(s) == RStrip(LStrip(s))

\* sep.join(parts): parts is a sequence of strings.
RECURSIVE Join(_, _)
Join(sep, parts) ==
    IF parts = << >> THEN << >>
    ELSE IF Len(parts) = 1 THEN parts[1]
    ELSE parts[1] \o sep \o Join(sep, Tail(parts))

\* s.split("\n"): the sequence of lines of s ("" splits into one empty line).
RECURSIVE SplitLines(_)
SplitLines(s) ==
    IF s = << >> THEN << << >> >>
    ELSE IF Head(s) = NL THEN << << >> >> \o SplitLines(Tail(s))
    ELSE LET rest == SplitLines(Tail(s))
         IN  << <<Head(s)>> \o rest[1] >> \o Tail(rest)

\* role.capitalize() followed by ": " in the f-string of retrieve_chat_context.
RolePrefix(role) ==
    IF role = "user" THEN "User: "
    ELSE IF role = "assistant" THEN "Assistant: "
    ELSE "Other: "

\* The punctuation that ends a sentence.
DOT == "."

\* len(s): the characters of a string, atom by atom.  The words are those of
\* the texts the chunker is applied to.
AtomLen(a) ==
    IF a \in {NL, SP, DOT} THEN 1
    ELSE IF a = "Go" THEN 2
    ELSE IF a \in {"Cats", "purr", "high"} THEN 4
    ELSE 5

RECURSIVE CharLen(_)
CharLen(s) == IF s = << >> THEN 0 ELSE AtomLen(Head(s)) + CharLen(Tail(s))

(***************************************************************************)
(* The embedding provider and cosine ranking.  Every embedding of the      *)
(* model has the same norm, so cosine similarity orders as the dot product.*)
(***************************************************************************)
Embedding(text) ==
    IF text = <<"alpha">> THEN <<5, 0>>
    ELSE IF text = <<"beta">> THEN <<3, 4>>
    ELSE IF text = <<"what", SP, "alpha">> THEN <<4, 3>>
    ELSE <<0, 5>>

Score(q, v) == q[1] * v[1] + q[2] * v[2]

(***************************************************************************)
(* Qdrant operations.  A collection is the sequence of its points in the   *)
(* order they were upserted; a point is its payload.  Every upsert of the  *)
(* code is under a fresh uuid4 point id, so it adds a point.               *)
(***************************************************************************)
\* Filter(must=[FieldCondition(key="session_id", match=MatchValue(value=sid))]):
\* the positions of the points it matches.
SessionFilter(coll, sid) == {i \in DOMAIN coll : coll[i].session_id = sid}

\* qdrant_client.delete(points_selector=FilterSelector(filter=session filter))
KeepOthers(coll, sid, i) == coll[i].session_id # sid
RECURSIVE DeleteFrom(_, _, _)
DeleteFrom(coll, sid, i) ==
    IF i > Len(coll) THEN << >>
    ELSE (IF KeepOthers(coll, sid, i) THEN << coll[i] >> ELSE << >>)
         \o DeleteFrom(coll, sid, i + 1)
\* Faulty variant of DeleteByFilter: the delete with the empty Filter(), which
\* matches every point.
DeleteEverything(coll, sid) == << >>

DeleteByFilter(coll, sid) == DeleteFrom(coll, sid, 1)

\* qdrant_client.search(query_vector, query_filter, limit): the possible
\* results as sequences of positions, best match first; equal scores may come
\* in any order.
RECURSIVE Ranked(_, _, _, _)
Ranked(coll, I, qv, k) ==
    IF k = 0 \/ I = {} THEN { << >> }
    ELSE LET best == {i \in I : \A j \in I :
                        Score(qv, Embedding(coll[i].text))
                          >= Score(qv, Embedding(coll[j].text))}
         IN  UNION { { <<i>> \o r : r \in Ranked(coll, I \ {i}, qv, k - 1) } : i \in best }

\* Faulty variant of QdrantSearch: the search without its query_filter.
QdrantSearchAnySession(coll, qv, sid, limit) == Ranked(coll, DOMAIN coll, qv, limit)

\* Faulty variant of QdrantSearch: the search without its limit.
QdrantSearchUnlimited(coll, qv, sid, limit) ==
    Ranked(coll, SessionFilter(coll, sid), qv, Len(coll))

QdrantSearch(coll, qv, sid, limit) == Ranked(coll, SessionFilter(coll, sid), qv, limit)

\* qdrant_client.scroll(scroll_filter, limit, order_by=turn_number DESC)
RECURSIVE RankedDesc(_, _, _)
RankedDesc(coll, I, k) ==
    IF k = 0 \/ I = {} THEN { << >> }
    ELSE LET top == {i \in I : \A j \in I : coll[i].turn_number >= coll[j].turn_number}
         IN  UNION { { <<i>> \o r : r \in RankedDesc(coll, I \ {i}, k - 1) } : i \in top }

\* qdrant_client.scroll(scroll_filter, limit) without order_by: points come in
\* point-id order, and the ids are random uuids, so any order is possible.
RECURSIVE Arrangements(_, _)
Arrangements(I, k) ==
    IF k = 0 \/ I = {} THEN { << >> }
    ELSE UNION { { <<i>> \o r : r \in Arrangements(I \ {i}, k - 1) } : i \in I }

QdrantScroll(coll, sid, limit, ordered) ==
    IF ordered THEN RankedDesc(coll, SessionFilter(coll, sid), limit)
    ELSE Arrangements(SessionFilter(coll, sid), limit)

\* The points at a sequence of positions.
At(coll, positions) == [n \in DOMAIN positions |-> coll[positions[n]]]

(***************************************************************************)
(* backend/qdrant_client.py: what the import of the module runs.           *)
(***************************************************************************)
\* ensure_collection_exists(name): the collection is left alone when
\* get_collection reports it GREEN; when get_collection raises or reports
\* another status, recreate_collection replaces it by an empty one.  The
\* call of recreate_collection is not inside the try: when it raises (rc),
\* the collection is as it was and the exception leaves the function.
EnsureOutcomes == {"green", "yellow", "raise"}
ensure_collection_exists(coll, status, rc) ==
    IF status = "green" THEN [raised |-> FALSE, coll |-> coll]
    ELSE IF rc = "raise" THEN [raised |-> TRUE, coll |-> coll]
    ELSE [raised |-> FALSE, coll |-> << >>]

\* clean_collections(): both deletes take the empty Filter(), which matches
\* every point; c1 and c2 are the outcomes of the delete on the knowledge
\* base and on the chat history, the second is not reached when the first
\* raises.
clean_collections(kbcoll, histcoll, c1, c2) ==
    IF c1 = "raise" THEN [kb |-> kbcoll, hist |-> histcoll]
    ELSE IF c2 = "raise" THEN [kb |-> << >>, hist |-> histcoll]
    ELSE [kb |-> << >>, hist |-> << >>]

(***************************************************************************)
(* backend/embed_utils.py                                                  *)
(***************************************************************************)
\* The texts of a sequence of hits (hit.payload['text'] for each hit).
HitTexts(hits) == [n \in DOMAIN hits |-> hits[n].text]

\* The points embed_and_store_chunks builds: one per document.
NewPoints(documents, session_id) ==
    [n \in DOMAIN documents |-> [session_id |-> session_id, text |-> documents[n]]]

\* Faulty variant of embed_and_store_chunks: the point id is derived from the
\* session and the text of the chunk, so a chunk stored again takes the place
\* of the point that was there.
embed_and_store_chunks_keyed(coll, documents, session_id, emb, st) ==
    IF documents # << >> /\ emb = "raise"
      THEN [raised |-> TRUE, coll |-> coll, wrote |-> FALSE]
    ELSE LET points == NewPoints(documents, session_id)
             kept == SelectSeq(coll, LAMBDA x : \A n \in DOMAIN points : points[n] # x)
         IN  IF points # << >>
               THEN IF st = "raise"
                      THEN [raised |-> TRUE, coll |-> coll, wrote |-> FALSE]
                      ELSE [raised |-> FALSE, coll |-> kept \o points, wrote |-> TRUE]
               ELSE [raised |-> FALSE, coll |-> coll, wrote |-> FALSE]

\* Faulty variant of embed_and_store_chunks: without the "if points:" guard,
\* the upsert is called for an empty batch too.
embed_and_store_chunks_unguarded(coll, documents, session_id, emb, st) ==
    IF documents # << >> /\ emb = "raise"
      THEN [raised |-> TRUE, coll |-> coll, wrote |-> FALSE]
    ELSE LET points == NewPoints(documents, session_id)
         IN  IF st = "raise"
               THEN [raised |-> TRUE, coll |-> coll, wrote |-> FALSE]
               ELSE [raised |-> FALSE, coll |-> coll \o points, wrote |-> TRUE]

\* embed_and_store_chunks(documents, session_id) on collection coll; emb and st
\* are the outcomes of the embedding provider and of the store's upsert.
embed_and_store_chunks(coll, documents, session_id, emb, st) ==
    IF documents # << >> /\ emb = "raise"
      THEN [raised |-> TRUE, coll |-> coll, wrote |-> FALSE]
    ELSE LET points == NewPoints(documents, session_id)
         IN  IF points # << >>
               THEN IF st = "raise"
                      THEN [raised |-> TRUE, coll |-> coll, wrote |-> FALSE]
                      ELSE [raised |-> FALSE, coll |-> coll \o points, wrote |-> TRUE]
               ELSE [raised |-> FALSE, coll |-> coll, wrote |-> FALSE]

\* search_knowledge_base(query_text, session_id, top_k): the possible outcomes.
\* get_embedding is called before the try block, the store inside it.
search_knowledge_base(coll, query_text, session_id, top_k, emb, st) ==
    IF Strip(query_text) = << >>
      THEN { [raised |-> FALSE, value |-> << >>, hits |-> << >>, calls |-> {}] }
    ELSE IF emb = "raise"
      THEN { [raised |-> TRUE, value |-> << >>, hits |-> << >>, calls |-> {"embed"}] }
    ELSE IF st = "raise"
      THEN { [raised |-> FALSE, value |-> << >>, hits |-> << >>,
              calls |-> {"embed", "search"}] }
    ELSE { [raised |-> FALSE, value |-> Join(<<NL, NL>>, HitTexts(At(coll, h))),
            hits |-> At(coll, h), calls |-> {"embed", "search"}] :
           h \in QdrantSearch(coll, Embedding(query_text), session_id, top_k) }

(***************************************************************************)
(* backend/chat_history.py                                                 *)
(***************************************************************************)
\* Faulty variant of store_chat_turn: the store numbers the turns itself, with
\* a counter it increments atomically.
store_chat_turn_counted(coll, session_id, role, message, turn_number, st) ==
    IF st = "raise" THEN coll
    ELSE Append(coll, [session_id |-> session_id, role |-> role,
                       message |-> message, turn_number |-> Len(coll) + 1])

\* store_chat_turn: the upsert is inside try/except, a failure is swallowed.
store_chat_turn(coll, session_id, role, message, turn_number, st) ==
    IF st = "raise" THEN coll
    ELSE Append(coll, [session_id |-> session_id, role |-> role,
                       message |-> message, turn_number |-> turn_number])

\* Faulty variant of store_chat_turn_raises: the failure of the upsert reaches
\* the caller.
store_chat_turn_propagates(st) == st = "raise"

\* Whether store_chat_turn raises to its caller: never, its whole body is in
\* a try whose except clause catches every Exception and prints it.
store_chat_turn_raises(st) == FALSE

\* The three scroll attempts of retrieve_chat_context; a1, a2, a3 are the
\* outcomes of the attempts ("ok" or "raise").
ScrollAttempts(coll, session_id, limit, a1, a2, a3) ==
    IF a1 = "ok"
      THEN { [raised |-> FALSE, positions |-> r, attempt |-> 1] :
             r \in QdrantScroll(coll, session_id, limit, TRUE) }
    ELSE IF a2 = "ok"
      THEN { [raised |-> FALSE, positions |-> r, attempt |-> 2] :
             r \in QdrantScroll(coll, session_id, limit, TRUE) }
    ELSE IF a3 = "ok"
      THEN { [raised |-> FALSE, positions |-> r, attempt |-> 3] :
             r \in QdrantScroll(coll, session_id, limit, FALSE) }
    ELSE { [raised |-> TRUE, positions |-> << >>, attempt |-> 3] }

\* chat_turns.sort(key=turn_number): Python's sort is stable.
RECURSIVE InsertStable(_, _)
InsertStable(sorted, x) ==
    IF sorted = << >> THEN <<x>>
    ELSE IF Head(sorted).turn_number <= x.turn_number
      THEN << Head(sorted) >> \o InsertStable(Tail(sorted), x)
      ELSE <<x>> \o sorted

\* Faulty variant of SortByTurn: the turns left in the order of the scroll.
ScrollOrder(turns) == turns

RECURSIVE SortByTurn(_)
SortByTurn(turns) ==
    IF turns = << >> THEN << >>
    ELSE InsertStable(SortByTurn(SubSeq(turns, 1, Len(turns) - 1)), turns[Len(turns)])

\* The turns that are formatted: those with a non-empty role and message.
RECURSIVE Formatted(_)
Formatted(turns) ==
    IF turns = << >> THEN << >>
    ELSE IF Head(turns).role # "" /\ Head(turns).message # << >>
      THEN << Head(turns) >> \o Formatted(Tail(turns))
      ELSE Formatted(Tail(turns))

\* f"{role.capitalize()}: {message}" for each formatted turn.
FormatTurns(turns) ==
    [n \in DOMAIN turns |-> <<RolePrefix(turns[n].role)>> \o turns[n].message]

\* Faulty variant of retrieve_chat_context: without the outer try/except, the
\* failure of the last scroll attempt reaches the caller.
retrieve_chat_context_unguarded(coll, session_id, current_question, max_turns, a1, a2, a3) ==
    { IF s.raised
        THEN [raised |-> TRUE, value |-> << >>, turns |-> << >>, scrolled |-> << >>,
              attempt |-> 0]
        ELSE LET chat_turns == SortByTurn(At(coll, s.positions))
             IN  [raised |-> FALSE,
                  value |-> Join(<<NL>>, FormatTurns(Formatted(chat_turns))),
                  turns |-> Formatted(chat_turns),
                  scrolled |-> s.positions,
                  attempt |-> s.attempt] :
      s \in ScrollAttempts(coll, session_id, max_turns * 2, a1, a2, a3) }

\* retrieve_chat_context(session_id, current_question, max_turns): the possible
\* outcomes.  value is the string returned; scrolled (the positions the scroll
\* returned) and turns (the sorted turns that were formatted) are kept for the
\* properties.
retrieve_chat_context(coll, session_id, current_question, max_turns, a1, a2, a3) ==
    { IF s.raised
        THEN [raised |-> FALSE, value |-> << >>, turns |-> << >>, scrolled |-> << >>,
              attempt |-> 0]
        ELSE LET chat_turns == SortByTurn(At(coll, s.positions))
             IN  [raised |-> FALSE,
                  value |-> Join(<<NL>>, FormatTurns(Formatted(chat_turns))),
                  turns |-> Formatted(chat_turns),
                  scrolled |-> s.positions,
                  attempt |-> s.attempt] :
      s \in ScrollAttempts(coll, session_id, max_turns * 2, a1, a2, a3) }

(***************************************************************************)
(* backend/session_utils.py                                                *)
(***************************************************************************)
\* Faulty variant of delete_session_data: the knowledge base is left alone and
\* True is returned all the same.
delete_session_data_history_only(histcoll, kbcoll, session_id, d1, d2) ==
    IF d1 = "raise"
      THEN [ret |-> FALSE, hist |-> histcoll, kb |-> kbcoll,
            chat_done |-> FALSE, kb_done |-> FALSE]
    ELSE [ret |-> TRUE, hist |-> DeleteByFilter(histcoll, session_id), kb |-> kbcoll,
          chat_done |-> TRUE, kb_done |-> TRUE]

\* Faulty variant of delete_session_data: a session without any record is
\* reported as a failure.
delete_session_data_strict(histcoll, kbcoll, session_id, d1, d2) ==
    IF d1 = "raise"
      THEN [ret |-> FALSE, hist |-> histcoll, kb |-> kbcoll,
            chat_done |-> FALSE, kb_done |-> FALSE]
    ELSE IF d2 = "raise"
      THEN [ret |-> FALSE, hist |-> DeleteByFilter(histcoll, session_id), kb |-> kbcoll,
            chat_done |-> TRUE, kb_done |-> FALSE]
    ELSE [ret |-> SessionFilter(histcoll, session_id) # {}
                    \/ SessionFilter(kbcoll, session_id) # {},
          hist |-> DeleteByFilter(histcoll, session_id),
          kb |-> DeleteByFilter(kbcoll, session_id),
          chat_done |-> TRUE, kb_done |-> TRUE]

\* Faulty variant of delete_session_data: the knowledge base is deleted first,
\* the chat history second.
delete_session_data_kb_first(histcoll, kbcoll, session_id, d1, d2) ==
    IF d2 = "raise"
      THEN [ret |-> FALSE, hist |-> histcoll, kb |-> kbcoll,
            chat_done |-> FALSE, kb_done |-> FALSE]
    ELSE IF d1 = "raise"
      THEN [ret |-> FALSE, hist |-> histcoll, kb |-> DeleteByFilter(kbcoll, session_id),
            chat_done |-> FALSE, kb_done |-> TRUE]
    ELSE [ret |-> TRUE, hist |-> DeleteByFilter(histcoll, session_id),
          kb |-> DeleteByFilter(kbcoll, session_id),
          chat_done |-> TRUE, kb_done |-> TRUE]

\* delete_session_data(session_id); d1 and d2 are the outcomes of the delete
\* on the chat history collection and on the knowledge base collection.
delete_session_data(histcoll, kbcoll, session_id, d1, d2) ==
    IF d1 = "raise"
      THEN [ret |-> FALSE, hist |-> histcoll, kb |-> kbcoll,
            chat_done |-> FALSE, kb_done |-> FALSE]
    ELSE IF d2 = "raise"
      THEN [ret |-> FALSE, hist |-> DeleteByFilter(histcoll, session_id), kb |-> kbcoll,
            chat_done |-> TRUE, kb_done |-> FALSE]
    ELSE [ret |-> TRUE, hist |-> DeleteByFilter(histcoll, session_id),
          kb |-> DeleteByFilter(kbcoll, session_id),
          chat_done |-> TRUE, kb_done |-> TRUE]

(***************************************************************************)
(* backend/main.py: pure parts                                             *)
(***************************************************************************)
\* Faulty variant of TurnNumber: the turns counted instead of the lines.
TurnNumberByHalves(chat_context) ==
    IF chat_context # << >> THEN Len(SplitLines(chat_context)) \div 2 ELSE 1

\* turn_number = (len(chat_context.split("\n")) // 2) + 1 if chat_context else 1
TurnNumber(chat_context) ==
    IF chat_context # << >> THEN (Len(SplitLines(chat_context)) \div 2) + 1 ELSE 1

\* The fixed pieces of prompt_for_llm, the f-string of chat().
PROMPT_INTRO == "You are Mario, a super helpful, friendly, and engaging AI assistant!"
CHAT_HISTORY_HEADER == "Chat History:"
KB_CONTEXT_HEADER == "Knowledge Base Context:"
QUESTION_HEADER == "User's Question:"
PROMPT_CLOSING == "Please provide a helpful and friendly response, using the provided context if relevant."
NO_HISTORY_MARKER == "No prior chat history for this session."
NO_KB_CONTEXT_MARKER == "No relevant knowledge base context found for this question. If you want me to learn, upload a document!"

\* Faulty variant of Prompt: the blocks are filled with the contexts as they
\* are, empty or not.
PromptWithoutMarkers(chat_context, kb_context, question) ==
    <<PROMPT_INTRO, NL, CHAT_HISTORY_HEADER, NL>> \o chat_context
    \o <<NL, KB_CONTEXT_HEADER, NL>> \o kb_context
    \o <<NL, QUESTION_HEADER, NL>> \o question \o <<NL, PROMPT_CLOSING>>

\* prompt_for_llm: each header is followed by its block; an empty context
\* (a falsy string) is replaced by its marker.
Prompt(chat_context, kb_context, question) ==
    <<PROMPT_INTRO, NL, CHAT_HISTORY_HEADER, NL>>
    \o (IF chat_context # << >> THEN chat_context ELSE <<NO_HISTORY_MARKER>>)
    \o <<NL, KB_CONTEXT_HEADER, NL>>
    \o (IF kb_context # << >> THEN kb_context ELSE <<NO_KB_CONTEXT_MARKER>>)
    \o <<NL, QUESTION_HEADER, NL>> \o question \o <<NL, PROMPT_CLOSING>>

\* Faulty variant of EndSessionStatus: the failure is answered like a success.
EndSessionStatusOk(success) == 200

\* The status /end_session answers with.
EndSessionStatus(success) == IF success THEN 200 ELSE 500

(***************************************************************************)
(* backend/chunker.py                                                      *)
(***************************************************************************)
\* chunk_text(text, chunk_size=200, overlap=50)
CHUNK_SIZE == 200
OVERLAP == 50

\* The position of the first atom of s that is in set A, Len(s) + 1 if none.
FirstIn(s, A) ==
    IF \E i \in DOMAIN s : s[i] \in A
      THEN CHOOSE i \in DOMAIN s : s[i] \in A /\ \A j \in 1..(i - 1) : s[j] \notin A
      ELSE Len(s) + 1

\* str.split(): the words of s, the maximal runs of atoms that are not
\* whitespace.
RECURSIVE Split(_)
Split(s) ==
    LET t == LStrip(s)
        n == FirstIn(t, Whitespace)
    IN  IF t = << >> THEN << >>
        ELSE << SubSeq(t, 1, n - 1) >> \o Split(SubSeq(t, n, Len(t)))

\* sent_tokenize(text) of NLTK: a sentence ends with the punctuation that is
\* followed by whitespace or by the end of the text; the whitespace between
\* two sentences belongs to neither.
SentenceEnd(t) ==
    LET ends == {i \in DOMAIN t : t[i] = DOT /\ (i = Len(t) \/ t[i + 1] \in Whitespace)}
    IN  IF ends = {} THEN Len(t) ELSE CHOOSE i \in ends : \A j \in ends : i <= j

RECURSIVE sent_tokenize(_)
sent_tokenize(text) ==
    LET t == Strip(text)
        e == SentenceEnd(t)
    IN  IF t = << >> THEN << >>
        ELSE << SubSeq(t, 1, e) >> \o sent_tokenize(SubSeq(t, e + 1, Len(t)))

\* re.split(r'[.!?]+', text): the pieces between the runs of punctuation.
RECURSIVE LStripDots(_)
LStripDots(s) ==
    IF s # << >> /\ Head(s) = DOT THEN LStripDots(Tail(s)) ELSE s

RECURSIVE RegexSplit(_)
RegexSplit(text) ==
    LET n == FirstIn(text, {DOT})
    IN  IF n > Len(text) THEN << text >>
        ELSE << SubSeq(text, 1, n - 1) >>
             \o RegexSplit(LStripDots(SubSeq(text, n, Len(text))))

\* [s.strip() for s in sentences if s.strip()]
RECURSIVE StripNonBlank(_)
StripNonBlank(pieces) ==
    IF pieces = << >> THEN << >>
    ELSE (IF Strip(Head(pieces)) # << >> THEN << Strip(Head(pieces)) >> ELSE << >>)
         \o StripNonBlank(Tail(pieces))

\* The sentences of chunk_text: those of sent_tokenize, or of the regex when
\* the punkt data is missing and sent_tokenize raises LookupError.
Sentences(text, punkt) ==
    IF punkt THEN sent_tokenize(text) ELSE StripNonBlank(RegexSplit(text))

\* Faulty variant of OverlapWords: the leading words of the closed chunk.
OverlapWordsLeading(words, overlap) ==
    SubSeq(words, 1, IF overlap < Len(words) THEN overlap ELSE Len(words))

\* words[-overlap:] for overlap > 0: the last overlap words, all of them when
\* there are fewer.
OverlapWords(words, overlap) ==
    SubSeq(words, (IF overlap < Len(words) THEN Len(words) - overlap ELSE 0) + 1,
           Len(words))

\* Faulty variant of Closed: a chunk of fewer than ten characters is dropped.
ClosedWithFloor(chunks, current_chunk) ==
    IF current_chunk # << >> /\ CharLen(Join(<<SP>>, current_chunk)) >= 10
      THEN Append(chunks, Join(<<SP>>, current_chunk))
      ELSE chunks

\* if current_chunk: chunks.append(" ".join(current_chunk))
Closed(chunks, current_chunk) ==
    IF current_chunk # << >> THEN Append(chunks, Join(<<SP>>, current_chunk)) ELSE chunks

\* if overlap > 0 and current_chunk: the next chunk is seeded with overlap
\* words.
Seeded(current_chunk, overlap) ==
    overlap > 0 /\ current_chunk # << >>

\* The loop of chunk_text over the sentences that are left.
RECURSIVE ChunkLoop(_, _, _, _, _, _)
ChunkLoop(sentences, chunk_size, overlap, chunks, current_chunk, current_length) ==
    IF sentences = << >> THEN Closed(chunks, current_chunk)
    ELSE LET sentence == Head(sentences)
             word_count == Len(Split(sentence))
         IN  IF current_length + word_count <= chunk_size
               THEN ChunkLoop(Tail(sentences), chunk_size, overlap, chunks,
                              Append(current_chunk, sentence),
                              current_length + word_count)
             ELSE LET seeded == Seeded(current_chunk, overlap)
                      overlap_words ==
                          OverlapWords(Split(Join(<<SP>>, current_chunk)), overlap)
                  IN  ChunkLoop(Tail(sentences), chunk_size, overlap,
                                Closed(chunks, current_chunk),
                                IF seeded
                                  THEN << Join(<<SP>>, overlap_words), sentence >>
                                  ELSE << sentence >>,
                                (IF seeded THEN Len(overlap_words) ELSE 0) + word_count)

\* chunk_text(text, chunk_size, overlap); punkt tells whether the data of the
\* sentence tokenizer is there.
chunk_text(text, chunk_size, overlap, punkt) ==
    ChunkLoop(Sentences(text, punkt), chunk_size, overlap, << >>, << >>, 0)

(***************************************************************************)
(* backend/document_loader.py                                              *)
(* A file is its type and its units of extraction in order: the pages of a *)
(* PDF, the one decoded text of the other types.  A unit is the text it    *)
(* gives, or the exception its extraction raises.                          *)
(***************************************************************************)
Unit(text) == [err |-> FALSE, text |-> text]
UnitError == [err |-> TRUE, text |-> << >>]

\* raw_texts_with_metadata when the try block of extract_text is left: the
\* non-blank texts appended before the first exception.
RECURSIVE RawTexts(_)
RawTexts(units) ==
    IF units = << >> \/ Head(units).err THEN << >>
    ELSE (IF Strip(Head(units).text) # << >> THEN << Head(units).text >> ELSE << >>)
         \o RawTexts(Tail(units))

\* [c for c in chunks if c.strip()]
RECURSIVE NonBlank(_)
NonBlank(chunks) ==
    IF chunks = << >> THEN << >>
    ELSE (IF Strip(Head(chunks)) # << >> THEN << Head(chunks) >> ELSE << >>)
         \o NonBlank(Tail(chunks))

\* The chunking loop of extract_text over the raw texts.
RECURSIVE ChunkAll(_, _)
ChunkAll(raw_texts, punkt) ==
    IF raw_texts = << >> THEN << >>
    ELSE NonBlank(chunk_text(Head(raw_texts), CHUNK_SIZE, OVERLAP, punkt))
         \o ChunkAll(Tail(raw_texts), punkt)

\* extract_text(file_path, content): the texts of the Documents returned.
extract_text(file, punkt) == ChunkAll(RawTexts(file.units), punkt)

(***************************************************************************)
(* The state.                                                              *)
(***************************************************************************)
VARIABLES
    kb,             \* the points of KB_COLLECTION
    hist,           \* the points of CHAT_HISTORY_COLLECTION
    minted,         \* how many session ids /chat has generated
    pc,             \* per request slot: where the /chat exchange stands
    session_id,     \* per request slot: the session of the exchange
    question,       \* per request slot: the question
    kb_hits,        \* per request slot: the hits search_knowledge_base got
    kb_context,     \* per request slot: the string search_knowledge_base returned
    chat_turns,     \* per request slot: the turns chat_context was formatted from
    chat_context,   \* per request slot: the string retrieve_chat_context returned
    turn_number,    \* per request slot: turn_number of stream_response (0: unset)
    llm,            \* per request slot: the chunks the LLM has still to send
    forwarded,      \* per request slot: the tokens yielded to the caller
    full_response,  \* per request slot: full_response of stream_response
    upload,         \* the /upload_document request waiting in await file.read()
    running,        \* whether the import of the backend went through
    last            \* what the last operation did and answered

vars == <<kb, hist, minted, pc, session_id, question, kb_hits, kb_context,
          chat_turns, chat_context, turn_number, llm, forwarded, full_response,
          upload, running, last>>

stores == <<kb, hist>>
slots == <<pc, session_id, question, kb_hits, kb_context, chat_turns, chat_context,
           turn_number, llm, forwarded, full_response>>

\* The request slots: concurrent /chat exchanges.
Procs == {1, 2}
\* The slots the concurrent specification uses: one exchange at a time, with
\* uploads and session deletions between its steps.
MainProcs == {1}

\* Session ids clients send; "global" is the default of /upload_document.
DefaultSession == "global"
\* A request that sends no session_id, or an empty one.
NoSessionId == ""
\* session_id: str = Form("global") of /upload_document.
FormSessionId(sid_in) == IF sid_in = NoSessionId THEN DefaultSession ELSE sid_in
Sessions == {"A", DefaultSession}
\* The session ids uuid4 generates for /chat requests that send none.
UuidName(n) == IF n = 0 THEN "uuid-a" ELSE IF n = 1 THEN "uuid-b" ELSE "uuid-c"

\* Outcomes of a call to an external collaborator.
Outcomes == {"ok", "raise"}
\* Outcomes of the three scroll attempts that differ in effect.
AttemptOutcomes ==
    { <<"ok", "ok", "ok">>, <<"raise", "ok", "ok">>,
      <<"raise", "raise", "ok">>, <<"raise", "raise", "raise">> }

\* Inputs of the model.
DocBatches == { << >>, << <<"alpha">> >>, << <<"alpha">>, <<"beta">> >> }
Questions == { <<"what", SP, "alpha">> }
\* A chunk of the LLM stream: a content fragment ("" when the delta carries no
\* content), or the stream raising.
Tok(c) == [err |-> FALSE, content |-> c]
StreamError == [err |-> TRUE, content |-> << >>]
LlmStreams ==
    { << Tok(<< >>) >>, << Tok(<< >>), Tok(<<"hi">>), Tok(<<"yo">>) >>,
      << Tok(<<"hi">>), StreamError >>, << StreamError >> }

Idle(p) == pc[p] = "idle"

\* No /upload_document request is in flight.
NoUpload == [pc |-> "idle", session_id |-> ""]

Init ==
    /\ kb = << >>
    /\ hist = << >>
    /\ minted = 0
    /\ pc = [p \in Procs |-> "idle"]
    /\ session_id = [p \in Procs |-> ""]
    /\ question = [p \in Procs |-> << >>]
    /\ kb_hits = [p \in Procs |-> << >>]
    /\ kb_context = [p \in Procs |-> << >>]
    /\ chat_turns = [p \in Procs |-> << >>]
    /\ chat_context = [p \in Procs |-> << >>]
    /\ turn_number = [p \in Procs |-> 0]
    /\ llm = [p \in Procs |-> << >>]
    /\ forwarded = [p \in Procs |-> << >>]
    /\ full_response = [p \in Procs |-> << >>]
    /\ upload = NoUpload
    /\ running = TRUE
    /\ last = [op |-> "init"]

(***************************************************************************)
(* POST /upload_document is a coroutine.  It is entered with session_id    *)
(* bound from the form and gives the event loop back at await file.read(): *)
(* other requests are served while it waits.  When it is resumed,          *)
(* extract_text produces documents (the chunk texts) from the content read *)
(* and embed_and_store_chunks stores them, without another suspension.     *)
(* Any exception becomes 500.                                              *)
(***************************************************************************)
\* The handler from the request to await file.read().
upload_document_begin(sid) ==
    /\ upload.pc = "idle"
    /\ upload' = [pc |-> "reading", session_id |-> sid]
    /\ last' = [op |-> "upload_document_begin", session_id |-> sid]
    /\ UNCHANGED <<stores, minted, slots, running>>

\* The handler resumed with the content of the file, to its answer.
upload_document(documents, emb, st) ==
    /\ upload.pc = "reading"
    /\ LET sid == upload.session_id
           r == embed_and_store_chunks(kb, documents, sid, emb, st)
       IN  /\ kb' = r.coll
           /\ last' = [op |-> "upload_document", session_id |-> sid,
                       wrote |-> r.wrote, status |-> IF r.raised THEN 500 ELSE 200]
    /\ upload' = NoUpload
    /\ UNCHANGED <<hist, minted, slots, running>>

(***************************************************************************)
(* POST /end_session.  delete_session_data is synchronous code inside an   *)
(* async handler: nothing else of the process runs between its two deletes.*)
(***************************************************************************)
end_session(sid, d1, d2) ==
    LET r == delete_session_data(hist, kb, sid, d1, d2)
    IN  /\ hist' = r.hist
        /\ kb' = r.kb
        /\ last' = [op |-> "end_session", session_id |-> sid, success |-> r.ret,
                    chat_done |-> r.chat_done, kb_done |-> r.kb_done,
                    status |-> EndSessionStatus(r.ret),
                    again |-> last.op = "end_session" /\ last.session_id = sid
                              /\ last.success]
        /\ UNCHANGED <<minted, slots, upload, running>>

(***************************************************************************)
(* GET /chat.  The handler body runs without suspension up to the return   *)
(* of the StreamingResponse: search, history fetch, prompt.  The generator *)
(* stream_response runs later, and is suspended at every yield.            *)
(***************************************************************************)
\* Faulty variant of HistoryAtFetch: the user turn of the exchange is stored
\* before the history is fetched.
HistoryWithQuestion(h, sid, q) == store_chat_turn(h, sid, "user", q, 0, "ok")

\* The collection retrieve_chat_context reads in chat(): the history as the
\* request finds it; this exchange's user turn is stored later, by the
\* generator.
HistoryAtFetch(h, sid, q) == h

chat(p, q, sid_in, emb, st, att) ==
    /\ Idle(p)
    /\ LET sid == IF sid_in = "" THEN UuidName(minted) ELSE sid_in
       IN  /\ minted' = IF sid_in = "" THEN minted + 1 ELSE minted
           /\ \E s \in search_knowledge_base(kb, q, sid, TOP_K, emb, st) :
              \E r \in retrieve_chat_context(HistoryAtFetch(hist, sid, q), sid, q,
                                             MAX_TURNS, att[1], att[2], att[3]) :
                 LET failed == s.raised \/ r.raised
                 IN  /\ pc' = [pc EXCEPT ![p] = IF failed THEN "idle" ELSE "gathered"]
                     /\ last' = [op |-> "chat", status |-> IF failed THEN 500 ELSE 200,
                                 prompt |-> IF failed THEN << >>
                                            ELSE Prompt(r.value, s.value, q)]
                     /\ session_id' = [session_id EXCEPT ![p] = IF failed THEN "" ELSE sid]
                     /\ question' = [question EXCEPT ![p] = IF failed THEN << >> ELSE q]
                     /\ kb_hits' = [kb_hits EXCEPT ![p] = s.hits]
                     /\ kb_context' = [kb_context EXCEPT ![p] = s.value]
                     /\ chat_turns' = [chat_turns EXCEPT ![p] =
                                         IF failed THEN << >> ELSE r.turns]
                     /\ chat_context' = [chat_context EXCEPT ![p] =
                                           IF failed THEN << >> ELSE r.value]
    /\ turn_number' = [turn_number EXCEPT ![p] = 0]
    /\ llm' = [llm EXCEPT ![p] = << >>]
    /\ forwarded' = [forwarded EXCEPT ![p] = << >>]
    /\ full_response' = [full_response EXCEPT ![p] = << >>]
    /\ UNCHANGED <<stores, upload, running>>

\* Faulty variant of SkipEmpty: chunks without content are not passed over.
SkipNothing(chunks) == chunks

\* Chunks without content are passed over by the loop of stream_response.
RECURSIVE SkipEmpty(_)
SkipEmpty(chunks) ==
    IF chunks = << >> THEN << >>
    ELSE IF ~Head(chunks).err /\ Head(chunks).content = << >>
      THEN SkipEmpty(Tail(chunks))
      ELSE chunks

\* An exchange ends: its locals are gone and the slot is free again.  What
\* the exchange came to is in last.
Finish(p, outcome, tn, fw) ==
    /\ pc' = [pc EXCEPT ![p] = "idle"]
    /\ last' = [op |-> "stream", outcome |-> outcome, turn_number |-> tn, body |-> fw]
    /\ session_id' = [session_id EXCEPT ![p] = ""]
    /\ question' = [question EXCEPT ![p] = << >>]
    /\ kb_hits' = [kb_hits EXCEPT ![p] = << >>]
    /\ kb_context' = [kb_context EXCEPT ![p] = << >>]
    /\ chat_turns' = [chat_turns EXCEPT ![p] = << >>]
    /\ chat_context' = [chat_context EXCEPT ![p] = << >>]
    /\ turn_number' = [turn_number EXCEPT ![p] = 0]
    /\ llm' = [llm EXCEPT ![p] = << >>]
    /\ forwarded' = [forwarded EXCEPT ![p] = << >>]
    /\ full_response' = [full_response EXCEPT ![p] = << >>]

\* Faulty variant of RunToYield: when the LLM stream raises, the response
\* accumulated so far is stored as the assistant turn.
RunToYieldKeepPartial(p, chunks, h, fr, fw, tn, stA) ==
    LET rest == SkipEmpty(chunks)
    IN  IF rest = << >>
          THEN IF store_chat_turn_raises(stA)
                 THEN /\ hist' = h
                      /\ Finish(p, "interrupted", tn, fw)
                 ELSE /\ hist' = store_chat_turn(h, session_id[p], "assistant", fr, tn, stA)
                      /\ Finish(p, "persisted", tn, fw)
        ELSE IF Head(rest).err
          THEN /\ hist' = store_chat_turn(h, session_id[p], "assistant", fr, tn, stA)
               /\ Finish(p, "interrupted", tn, fw)
        ELSE /\ hist' = h
             /\ pc' = [pc EXCEPT ![p] = "streaming"]
             /\ llm' = [llm EXCEPT ![p] = Tail(rest)]
             /\ forwarded' = [forwarded EXCEPT ![p] = Append(fw, Head(rest).content)]
             /\ full_response' = [full_response EXCEPT ![p] = fr \o Head(rest).content]
             /\ turn_number' = [turn_number EXCEPT ![p] = tn]
             /\ last' = [op |-> "stream", outcome |-> "yield", turn_number |-> tn,
                         body |-> << >>]
             /\ UNCHANGED <<session_id, question, kb_hits, kb_context, chat_turns,
                            chat_context>>

\* Faulty variant of RunToYield: the assistant turn is stored at every yield,
\* with the response accumulated so far.
RunToYieldEager(p, chunks, h, fr, fw, tn, stA) ==
    LET rest == SkipEmpty(chunks)
    IN  IF rest = << >>
          THEN IF store_chat_turn_raises(stA)
                 THEN /\ hist' = h
                      /\ Finish(p, "interrupted", tn, fw)
                 ELSE /\ hist' = store_chat_turn(h, session_id[p], "assistant", fr, tn, stA)
                      /\ Finish(p, "persisted", tn, fw)
        ELSE IF Head(rest).err
          THEN /\ hist' = h
               /\ Finish(p, "interrupted", tn, fw)
        ELSE /\ hist' = store_chat_turn(h, session_id[p], "assistant",
                                        fr \o Head(rest).content, tn, stA)
             /\ pc' = [pc EXCEPT ![p] = "streaming"]
             /\ llm' = [llm EXCEPT ![p] = Tail(rest)]
             /\ forwarded' = [forwarded EXCEPT ![p] = Append(fw, Head(rest).content)]
             /\ full_response' = [full_response EXCEPT ![p] = fr \o Head(rest).content]
             /\ turn_number' = [turn_number EXCEPT ![p] = tn]
             /\ last' = [op |-> "stream", outcome |-> "yield", turn_number |-> tn,
                         body |-> << >>]
             /\ UNCHANGED <<session_id, question, kb_hits, kb_context, chat_turns,
                            chat_context>>

\* stream_response from where it stands to its next yield, to the exception
\* that ends it, or to its end (where the assistant turn is stored).  h is the
\* history collection as the run finds it, fr and fw are full_response and
\* the tokens forwarded so far, tn is the turn number.
RunToYield(p, chunks, h, fr, fw, tn, stA) ==
    LET rest == SkipEmpty(chunks)
    IN  IF rest = << >>
          THEN IF store_chat_turn_raises(stA)
                 THEN /\ hist' = h
                      /\ Finish(p, "interrupted", tn, fw)
                 ELSE /\ hist' = store_chat_turn(h, session_id[p], "assistant", fr, tn, stA)
                      /\ Finish(p, "persisted", tn, fw)
        ELSE IF Head(rest).err
          THEN /\ hist' = h
               /\ Finish(p, "interrupted", tn, fw)
        ELSE /\ hist' = h
             /\ pc' = [pc EXCEPT ![p] = "streaming"]
             /\ llm' = [llm EXCEPT ![p] = Tail(rest)]
             /\ forwarded' = [forwarded EXCEPT ![p] = Append(fw, Head(rest).content)]
             /\ full_response' = [full_response EXCEPT ![p] = fr \o Head(rest).content]
             /\ turn_number' = [turn_number EXCEPT ![p] = tn]
             /\ last' = [op |-> "stream", outcome |-> "yield", turn_number |-> tn,
                         body |-> << >>]
             /\ UNCHANGED <<session_id, question, kb_hits, kb_context, chat_turns,
                            chat_context>>

\* The first run of the generator: turn number, user turn, the LLM call.
stream_start(p, stU, stream, stA) ==
    /\ pc[p] = "gathered"
    /\ LET tn == TurnNumber(chat_context[p])
       IN  IF store_chat_turn_raises(stU)
             THEN /\ hist' = hist
                  /\ Finish(p, "interrupted", tn, << >>)
             ELSE RunToYield(p, stream,
                             store_chat_turn(hist, session_id[p], "user", question[p],
                                             tn, stU),
                             << >>, << >>, tn, stA)
    /\ UNCHANGED <<kb, minted, upload, running>>

\* The generator resumed after a yield.
stream_next(p, stA) ==
    /\ pc[p] = "streaming"
    /\ RunToYield(p, llm[p], hist, full_response[p], forwarded[p], turn_number[p], stA)
    /\ UNCHANGED <<kb, minted, upload, running>>

\* The caller goes away: the generator is closed at the yield it waits in.
cancel(p) ==
    /\ pc[p] = "streaming"
    /\ Finish(p, "cancelled", turn_number[p], forwarded[p])
    /\ UNCHANGED <<stores, minted, upload, running>>

(***************************************************************************)
(* The concurrent specification: uploads, an exchange and session          *)
(* deletions in any order.                                                 *)
(***************************************************************************)
\* Records the exchanges in flight may still store.
Reserved(p) ==
    IF pc[p] = "gathered" THEN 2 ELSE IF pc[p] = "streaming" THEN 1 ELSE 0

\* The outcomes of two calls made one after the other, the second of which
\* is not made when the first raises: the embedding and the store call of an
\* upload or of a search, the two deletes of a session deletion or of
\* clean_collections, the two constructors the import runs.
CallPairs == { <<"ok", "ok">>, <<"ok", "raise">>, <<"raise", "ok">> }

\* The store of the assistant turn is reached by a run of the generator only
\* when the LLM stream is at its end (chunks without content passed over):
\* no outcome is drawn for a store that is not called.
AssistantStoreOutcomes(chunks) ==
    IF SkipEmpty(chunks) = << >> THEN Outcomes ELSE {"ok"}

Next ==
    \/ \E sid \in Sessions : upload_document_begin(sid)
    \/ /\ upload.pc = "reading"
       /\ \E documents \in {d \in DocBatches : Len(kb) + Len(d) <= MaxKb},
             o \in CallPairs :
             upload_document(documents, o[1], o[2])
    \/ \E sid \in Sessions, d \in CallPairs :
          end_session(sid, d[1], d[2])
    \/ /\ Len(hist) + Reserved(1) + Reserved(2) + 2 <= MaxHist
       /\ \E p \in MainProcs :
             /\ Idle(p)
             /\ \E q \in Questions, sid_in \in Sessions,
                   o \in CallPairs, att \in AttemptOutcomes :
                   chat(p, q, sid_in, o[1], o[2], att)
    \/ \E p \in MainProcs :
          /\ pc[p] = "gathered"
          /\ \E stU \in Outcomes, stream \in LlmStreams :
                \E stA \in AssistantStoreOutcomes(stream) :
                   stream_start(p, stU, stream, stA)
    \/ \E p \in MainProcs :
          /\ pc[p] = "streaming"
          /\ \E stA \in AssistantStoreOutcomes(llm[p]) : stream_next(p, stA)
    \/ \E p \in MainProcs : cancel(p)

Spec == Init /\ [][Next]_vars

(***************************************************************************)
(* The sequential specification: the exchanges of one session, one after   *)
(* the other, no collaborator failing.  retrieve_chat_context is called    *)
(* with its default max_turns, as /chat calls it.                          *)
(***************************************************************************)
SeqSession == "A"
SeqQuestions == { <<"hello">>, <<"one", NL, "two", NL, "three">> }
SeqStreams == { << Tok(<<"hi">>) >>, << Tok(<< >>) >> }

SeqNext ==
    \/ \E q \in SeqQuestions :
          /\ Len(hist) + 2 <= MaxSeqHist
          /\ chat(1, q, SeqSession, "ok", "ok", <<"ok", "ok", "ok">>)
    \/ \E stream \in SeqStreams : stream_start(1, "ok", stream, "ok")
    \/ stream_next(1, "ok")

SeqSpec == Init /\ [][SeqNext]_vars

(***************************************************************************)
(* The specification of two exchanges at once: two /chat requests of one   *)
(* session are in flight together, no collaborator failing; the steps of   *)
(* their handlers and generators interleave at the awaits and yields.      *)
(***************************************************************************)
RaceNext ==
    \/ \E p \in Procs, q \in SeqQuestions :
          /\ Len(hist) + Reserved(1) + Reserved(2) + 2 <= MaxRaceHist
          /\ chat(p, q, SeqSession, "ok", "ok", <<"ok", "ok", "ok">>)
    \/ \E p \in Procs, stream \in SeqStreams : stream_start(p, "ok", stream, "ok")
    \/ \E p \in Procs : stream_next(p, "ok")

RaceSpec == Init /\ [][RaceNext]_vars

(***************************************************************************)
(* The function-level specification of the chat history store: any turns   *)
(* are stored with store_chat_turn, and retrieve_chat_context is called    *)
(* with any session, small max_turns and any outcome of its scrolls.       *)
(***************************************************************************)
\* The turns stored: under session "A" a user turn or an assistant turn,
\* whose message is empty when the model streamed no content; under the other
\* session one turn, which the session filter has to drop.
FnTurnNumbers == {1, 2}
FnTurns ==
    { [session_id |-> "A", role |-> "user", message |-> <<"m">>, turn_number |-> n] :
        n \in FnTurnNumbers }
    \cup { [session_id |-> "A", role |-> "assistant", message |-> m, turn_number |-> n] :
        m \in { <<"m">>, << >> }, n \in FnTurnNumbers }
    \cup { [session_id |-> DefaultSession, role |-> "user", message |-> <<"m">>,
            turn_number |-> 1] }
FnMaxTurns == {1}

fn_store(t, st) ==
    /\ hist' = store_chat_turn(hist, t.session_id, t.role, t.message, t.turn_number, st)
    /\ last' = [op |-> "store_chat_turn"]
    /\ UNCHANGED <<kb, minted, slots, upload, running>>

fn_retrieve(sid, max_turns, att) ==
    /\ \E r \in retrieve_chat_context(hist, sid, << >>, max_turns,
                                      att[1], att[2], att[3]) :
          last' = [op |-> "retrieve_chat_context", session_id |-> sid,
                   max_turns |-> max_turns, attempts |-> att, result |-> r]
    /\ UNCHANGED <<stores, minted, slots, upload, running>>

FnNext ==
    \/ \E t \in FnTurns, st \in Outcomes :
          /\ Len(hist) < MaxFnHist
          /\ fn_store(t, st)
    \/ \E sid \in Sessions, max_turns \in FnMaxTurns, att \in AttemptOutcomes :
          fn_retrieve(sid, max_turns, att)

FnSpec == Init /\ [][FnNext]_vars

(***************************************************************************)
(* The function-level specification of the prompt assembly of chat(): the  *)
(* f-string is applied to chat contexts, knowledge base contexts and       *)
(* questions as the handler can have them.                                 *)
(***************************************************************************)
\* Strings retrieve_chat_context can return: the lines of up to two turns.
PromptChatContexts ==
    { Join(<<NL>>, FormatTurns(Formatted(ts))) :
        ts \in { << >> } \cup { <<t>> : t \in FnTurns }
                 \cup { <<t, u>> : t \in FnTurns, u \in FnTurns } }
\* Strings search_knowledge_base can return: the texts of the hits.
PromptKbContexts == { Join(<<NL, NL>>, documents) : documents \in DocBatches }
\* Questions: those of the other specifications, the empty and the blank one.
PromptQuestions == Questions \cup SeqQuestions \cup { << >>, <<SP>> }

fn_prompt(cc, kc, q) ==
    /\ last' = [op |-> "prompt", chat_context |-> cc, kb_context |-> kc,
                question |-> q, prompt |-> Prompt(cc, kc, q)]
    /\ UNCHANGED <<stores, minted, slots, upload, running>>

PromptNext ==
    \E cc \in PromptChatContexts, kc \in PromptKbContexts, q \in PromptQuestions :
        fn_prompt(cc, kc, q)

PromptSpec == Init /\ [][PromptNext]_vars

(***************************************************************************)
(* The function-level specification of the chunker and of the document     *)
(* loader: chunk_text is applied to texts of a few sentences with small    *)
(* chunk sizes and overlaps, extract_text to files of a few units.  Both    *)
(* are functions of their arguments: each is applied once, to any input.   *)
(***************************************************************************)
\* The sentences the texts are made of: one, two and three words.
GO == <<"Go", DOT>>
CATS == <<"Cats", SP, "purr", DOT>>
MARIO == <<"Mario", SP, "jumps", NL, "high", DOT>>
SentencePool == {GO, CATS, MARIO}

\* The sequences of up to n elements of S.
RECURSIVE SeqsUpTo(_, _)
SeqsUpTo(S, n) ==
    IF n = 0 THEN { << >> }
    ELSE LET shorter == SeqsUpTo(S, n - 1)
         IN  shorter \cup { Append(x, e) : x \in {y \in shorter : Len(y) = n - 1}, e \in S }

\* The texts: up to MaxSentences sentences, a blank or a line break between
\* them.
ChunkTexts ==
    { Join(sep, ss) : sep \in { <<SP>>, <<NL>> }, ss \in SeqsUpTo(SentencePool, MaxSentences) }
ChunkSizes == {2, 3}
Overlaps == {0, 1, 2}

\* The files: a PDF of up to MaxPages pages, or a text file; a page has no
\* text, a short text or a text of two sentences, or its extraction raises.
UnitTexts == { <<SP>>, GO, CATS \o <<SP>> \o MARIO }
Units == { Unit(t) : t \in UnitTexts } \cup { UnitError }
Files ==
    { [file_type |-> "pdf", units |-> u] : u \in SeqsUpTo(Units, MaxPages) }
    \cup { [file_type |-> "txt", units |-> <<u>>] : u \in Units }

fn_chunk_text(text, chunk_size, overlap, punkt) ==
    /\ last.op = "init"
    /\ last' = [op |-> "chunk_text", text |-> text, chunk_size |-> chunk_size,
                overlap |-> overlap, punkt |-> punkt,
                chunks |-> chunk_text(text, chunk_size, overlap, punkt)]
    /\ UNCHANGED <<stores, minted, slots, upload, running>>

fn_extract_text(file, punkt) ==
    /\ last.op = "init"
    /\ last' = [op |-> "extract_text", file |-> file, punkt |-> punkt,
                documents |-> extract_text(file, punkt)]
    /\ UNCHANGED <<stores, minted, slots, upload, running>>

LoaderNext ==
    \/ \E text \in ChunkTexts, chunk_size \in ChunkSizes, overlap \in Overlaps,
          punkt \in BOOLEAN :
          fn_chunk_text(text, chunk_size, overlap, punkt)
    \/ \E file \in Files, punkt \in BOOLEAN : fn_extract_text(file, punkt)

LoaderSpec == Init /\ [][LoaderNext]_vars

(***************************************************************************)
(* The function-level specification of the knowledge base: chunks are      *)
(* stored with embed_and_store_chunks, and search_knowledge_base is called *)
(* with any session, small top_k and any outcome of its collaborators.     *)
(***************************************************************************)
\* The chunks stored: three texts under session "A", which the query ranks
\* differently, and one under the other session.
KbChunks ==
    { [session_id |-> "A", text |-> t] : t \in { <<"alpha">>, <<"beta">>, <<"gamma">> } }
    \cup { [session_id |-> DefaultSession, text |-> <<"beta">>] }
\* The queries: a question, the empty string, a blank string.
KbQueries == Questions \cup { << >>, <<SP, NL>> }
KbTopK == {1, 2}

fn_embed_and_store(c) ==
    /\ kb' = embed_and_store_chunks(kb, << c.text >>, c.session_id, "ok", "ok").coll
    /\ last' = [op |-> "embed_and_store_chunks"]
    /\ UNCHANGED <<hist, minted, slots, upload, running>>

fn_search(query_text, sid, top_k, emb, st) ==
    /\ \E r \in search_knowledge_base(kb, query_text, sid, top_k, emb, st) :
          last' = [op |-> "search_knowledge_base", query_text |-> query_text,
                   session_id |-> sid, top_k |-> top_k, emb |-> emb, st |-> st,
                   result |-> r]
    /\ UNCHANGED <<stores, minted, slots, upload, running>>

KbNext ==
    \/ \E c \in KbChunks :
          /\ Len(kb) < MaxFnKb
          /\ fn_embed_and_store(c)
    \/ \E query_text \in KbQueries, sid \in Sessions, top_k \in KbTopK,
          emb \in Outcomes, st \in Outcomes :
          fn_search(query_text, sid, top_k, emb, st)

KbSpec == Init /\ [][KbNext]_vars

(***************************************************************************)
(* The specification of the service over restarts: uploads and exchanges   *)
(* whose requests may send no session_id, session deletions, and the start *)
(* of the process, which imports backend/qdrant_client.py.  No request     *)
(* fails; the outcomes of the calls at import are free.                    *)
(***************************************************************************)
\* POST /upload_document as the client sends it, with or without session_id:
\* the form default binds session_id before the handler is entered.
upload_request(sid_in) == upload_document_begin(FormSessionId(sid_in))

\* The imports of backend/main.py that follow the module body of
\* backend/qdrant_client.py: backend/embed_utils.py builds the embedding
\* model (SentenceTransformer, outcome em) and backend/llm_client.py the LLM
\* client (OpenAI, outcome oc), both in their module bodies and outside any
\* try; the second is not reached when the first raises.
import_completes(em, oc) == em = "ok" /\ oc = "ok"

\* The process starts: backend/main.py is imported.  Its first import runs
\* the module body of backend/qdrant_client.py: ensure_collection_exists for
\* the knowledge base (get_collection gives g1, recreate_collection r1), then
\* for the chat history (g2, r2), then clean_collections (c1, c2).  An
\* exception of recreate_collection leaves the import: what follows it does
\* not run.  The rest of the import (em, oc) comes after clean_collections:
\* when it raises, the collections are as clean_collections left them.  The
\* process comes up when the whole import went through.  The requests and
\* exchanges of the process before are gone.
startup(g1, r1, g2, r2, c1, c2, em, oc) ==
    LET e1 == ensure_collection_exists(kb, g1, r1)
        e2 == ensure_collection_exists(hist, g2, r2)
        r == clean_collections(e1.coll, e2.coll, c1, c2)
    IN  /\ kb' = IF e1.raised THEN kb ELSE IF e2.raised THEN e1.coll ELSE r.kb
        /\ hist' = IF e1.raised \/ e2.raised THEN hist ELSE r.hist
        /\ running' = (~(e1.raised \/ e2.raised) /\ import_completes(em, oc))
        /\ last' = [op |-> "startup"]
        /\ upload' = NoUpload
        /\ pc' = [p \in Procs |-> "idle"]
        /\ session_id' = [p \in Procs |-> ""]
        /\ question' = [p \in Procs |-> << >>]
        /\ kb_hits' = [p \in Procs |-> << >>]
        /\ kb_context' = [p \in Procs |-> << >>]
        /\ chat_turns' = [p \in Procs |-> << >>]
        /\ chat_context' = [p \in Procs |-> << >>]
        /\ turn_number' = [p \in Procs |-> 0]
        /\ llm' = [p \in Procs |-> << >>]
        /\ forwarded' = [p \in Procs |-> << >>]
        /\ full_response' = [p \in Procs |-> << >>]
        /\ UNCHANGED minted

\* Requests are served by a process whose import went through; a process
\* that failed to come up is started again.
ServiceNext ==
    \/ \E sid_in \in {NoSessionId, "A"} :
          /\ running
          /\ upload_request(sid_in)
    \/ \E documents \in DocBatches :
          /\ running
          /\ Len(kb) + Len(documents) <= MaxKb
          /\ upload_document(documents, "ok", "ok")
    \/ \E sid \in Sessions :
          /\ running
          /\ end_session(sid, "ok", "ok")
    \/ \E p \in MainProcs, q \in Questions, sid_in \in Sessions \cup {NoSessionId} :
          /\ running
          /\ Len(hist) + Reserved(1) + Reserved(2) + 2 <= MaxHist
          /\ sid_in = NoSessionId => minted < MaxMinted
          /\ chat(p, q, sid_in, "ok", "ok", <<"ok", "ok", "ok">>)
    \/ \E p \in MainProcs, stream \in SeqStreams :
          /\ running
          /\ stream_start(p, "ok", stream, "ok")
    \/ \E p \in MainProcs :
          /\ running
          /\ stream_next(p, "ok")
    \/ \E g1 \in EnsureOutcomes, r1 \in Outcomes, g2 \in EnsureOutcomes,
          r2 \in Outcomes, c \in CallPairs, i \in CallPairs :
          startup(g1, r1, g2, r2, c[1], c[2], i[1], i[2])

ServiceSpec == Init /\ [][ServiceNext]_vars

(***************************************************************************)
(* Properties.                                                             *)
(***************************************************************************)
\* How often x occurs in the sequence s.
Count(s, x) == Cardinality({n \in DOMAIN s : s[n] = x})
\* The number of "\n" atoms of a string.
NewlineCount(s) == Cardinality({n \in DOMAIN s : s[n] = NL})
\* No point of collection coll belongs to session sid.
NoneOf(coll, sid) == \A i \in DOMAIN coll : coll[i].session_id # sid

\* C1 (session isolation of search): every hit search_knowledge_base got for
\* an exchange is a chunk of the session of the exchange, and the context
\* string is the texts of exactly these hits joined by blank lines, whatever
\* chunks the other sessions hold.
C1_SearchSessionIsolation ==
    \A p \in Procs :
        /\ \A n \in DOMAIN kb_hits[p] : kb_hits[p][n].session_id = session_id[p]
        /\ kb_context[p] = Join(<<NL, NL>>, HitTexts(kb_hits[p]))

\* An exchange has hits while another session holds a chunk with the very
\* text of the best hit.
C1_Witness ==
    \E p \in Procs :
        /\ pc[p] = "gathered"
        /\ kb_hits[p] # << >>
        /\ \E i \in DOMAIN kb :
              /\ kb[i].session_id # session_id[p]
              /\ kb[i].text = kb_hits[p][1].text

\* C2 (delete completeness): when delete_session_data has returned True for
\* session s, neither collection holds a point of s at that moment, whatever
\* uploads and exchanges came before or are in flight.
C2_DeleteComplete ==
    (last.op = "end_session" /\ last.success)
        => (NoneOf(kb, last.session_id) /\ NoneOf(hist, last.session_id))

\* A successful delete of a session one of whose exchanges is streaming, which
\* has stored its user turn before, and one of whose uploads waits for its
\* file.
C2_Witness ==
    /\ last.op = "end_session"
    /\ last.success
    /\ pc[1] = "streaming"
    /\ session_id[1] = last.session_id
    /\ upload.pc = "reading"
    /\ upload.session_id = last.session_id

\* C3 (delete idempotent): a delete of session s whose two store calls go
\* through returns True and leaves no point of s; if s had no point (deleted
\* before, or never used) the collections are left as they were.
C3_DeleteIdempotent ==
    [][last'.op = "end_session" => \A sid \in {last'.session_id} :
          end_session(sid, "ok", "ok") =>
              /\ last'.success
              /\ NoneOf(kb', sid) /\ NoneOf(hist', sid)
              /\ (NoneOf(kb, sid) /\ NoneOf(hist, sid)) => (kb' = kb /\ hist' = hist)]_vars

\* The delete of a session that follows a successful delete of that session.
C3_Witness ==
    /\ last.op = "end_session"
    /\ last.again
    /\ last.success

\* C4 (delete errors surfaced): delete_session_data returns True exactly when
\* both store deletes completed without an exception; otherwise it returns
\* False and /end_session answers 500.
C4_DeleteErrorsSurfaced ==
    [][last'.op = "end_session" =>
       \A sid \in {last'.session_id}, d1 \in Outcomes, d2 \in Outcomes :
          end_session(sid, d1, d2) =>
              /\ last'.success <=> (d1 = "ok" /\ d2 = "ok")
              /\ last'.status = (IF d1 = "ok" /\ d2 = "ok" THEN 200 ELSE 500)]_vars

\* A delete whose second store call raised after the first went through.
C4_Witness ==
    /\ last.op = "end_session"
    /\ last.chat_done
    /\ ~last.kb_done
    /\ ~last.success
    /\ last.status = 500

\* C5 (history output order): the turns retrieve_chat_context formats are the
\* turns the scroll returned that have a message, in ascending turn_number
\* order, whatever order the store returned them in.
C5_HistoryAscending ==
    last.op = "retrieve_chat_context" =>
        LET t == last.result.turns
            got == At(hist, last.result.scrolled)
        IN  /\ \A i, j \in DOMAIN t : i < j => t[i].turn_number <= t[j].turn_number
            /\ \A x \in FnTurns :
                  Count(t, x) = (IF x.message = << >> THEN 0 ELSE Count(got, x))
            /\ last.result.value = Join(<<NL>>, FormatTurns(t))

\* The scroll returned a later turn before an earlier one, both with a message.
C5_Witness ==
    /\ last.op = "retrieve_chat_context"
    /\ Len(last.result.turns) >= 2
    /\ \E n \in DOMAIN last.result.scrolled :
          /\ n + 1 \in DOMAIN last.result.scrolled
          /\ hist[last.result.scrolled[n]].message # << >>
          /\ hist[last.result.scrolled[n + 1]].message # << >>
          /\ hist[last.result.scrolled[n]].turn_number
               > hist[last.result.scrolled[n + 1]].turn_number

\* C6 (history bound and recency): retrieve_chat_context returns at most
\* 2 * max_turns turns, and no point of the session that the scroll left out
\* is more recent than a turn that is returned.  Points are in the collection
\* in the order they were stored.
C6_MostRecentTurns ==
    last.op = "retrieve_chat_context" =>
        LET got == last.result.scrolled
            fetched == {got[n] : n \in DOMAIN got}
            returned == {i \in fetched : hist[i].message # << >>}
        IN  /\ Len(last.result.turns) <= 2 * last.max_turns
            /\ \A i \in SessionFilter(hist, last.session_id) \ fetched :
                  \A j \in returned : i < j

\* C7 (history retrieval never raises): retrieve_chat_context raises nothing,
\* returns "" when all three scroll attempts fail or the session has no turn,
\* and leaves both collections as they were.
C7_RetrieveNeverRaises ==
    [][last'.op = "retrieve_chat_context" =>
          /\ ~last'.result.raised
          /\ kb' = kb /\ hist' = hist
          /\ (last'.attempts = <<"raise", "raise", "raise">>
                \/ NoneOf(hist, last'.session_id))
                => last'.result.value = << >>]_vars

\* All three scroll attempts failed for a session that has a turn to show.
C7_Witness ==
    /\ last.op = "retrieve_chat_context"
    /\ last.attempts = <<"raise", "raise", "raise">>
    /\ \E i \in DOMAIN hist :
          hist[i].session_id = last.session_id /\ hist[i].message # << >>
    /\ last.result.value = << >>

\* C8 (prompt history excludes the in-flight question): the step of /chat that
\* fetches the history writes nothing, every turn of the fetched context was
\* in the collection before the request, the context is not fetched again
\* while the exchange lasts, and the user turn of the exchange is added to
\* the collection only afterwards, by the generator.
C8_HistoryBeforeUserTurn ==
    [][\A p \in Procs :
          /\ (pc[p] = "idle" /\ pc'[p] = "gathered") =>
                /\ hist' = hist
                /\ \A n \in DOMAIN chat_turns'[p] :
                      Count(chat_turns'[p], chat_turns'[p][n])
                        <= Count(hist, chat_turns'[p][n])
          /\ (pc[p] # "idle" /\ pc'[p] # "idle") =>
                /\ chat_context'[p] = chat_context[p]
                /\ chat_turns'[p] = chat_turns[p]
          /\ (pc[p] = "gathered" /\ pc'[p] # "gathered") =>
                /\ Len(hist') > Len(hist)
                /\ SubSeq(hist', 1, Len(hist)) = hist
                /\ hist'[Len(hist) + 1].role = "user"
                /\ hist'[Len(hist) + 1].message = question[p]]_vars

\* An exchange with a fetched history of two turns or more has stored its
\* user turn and is streaming.
C8_Witness ==
    /\ pc[1] = "streaming"
    /\ Len(chat_turns[1]) >= 2
    /\ hist # << >>
    /\ hist[Len(hist)].role = "user"
    /\ hist[Len(hist)].message = question[1]
    /\ hist[Len(hist)].turn_number = turn_number[1]

\* C9 (turn number formula): the turns of an exchange are stored with
\* turn_number = (number of lines of the chat context) div 2 + 1, or 1 when
\* the context is empty; the lines are counted from the "\n" of the string.
C9_TurnNumberFormula ==
    [][\A p \in Procs :
          pc[p] \in {"gathered", "streaming"} =>
              LET lines == NewlineCount(chat_context[p]) + 1
                  expected == IF chat_context[p] = << >> THEN 1 ELSE (lines \div 2) + 1
              IN  \A i \in (Len(hist) + 1)..Len(hist') :
                      hist'[i].turn_number = expected]_vars

\* Turns stored under 1 and turns stored under a number above 2, one of them
\* by an exchange whose context had a message of several lines.
C9_Witness ==
    /\ \E i \in DOMAIN hist : hist[i].turn_number = 1
    /\ \E i \in DOMAIN hist : hist[i].turn_number > 2 /\ hist[i].role = "assistant"
    /\ \E i \in DOMAIN hist : NewlineCount(hist[i].message) > 0

\* C10 (turn number monotone): over the exchanges of one session handled one
\* after the other, no turn is stored under a smaller turn_number than a turn
\* stored before it.
C10_TurnNumberMonotone ==
    \A i, j \in DOMAIN hist :
        (i < j /\ hist[i].session_id = hist[j].session_id)
            => hist[i].turn_number <= hist[j].turn_number

\* C11 (sequential numbering): over the exchanges of one session handled one
\* after the other with single-line non-empty messages, the turns of the k-th
\* exchange are stored under turn_number k.  The turns are in the collection
\* in the order they were stored, two per exchange.
C11_TurnsNumberedSequentially ==
    (\A i \in DOMAIN hist :
        hist[i].message # << >> /\ NewlineCount(hist[i].message) = 0)
        => \A i \in DOMAIN hist : hist[i].turn_number = (i + 1) \div 2

\* C12 (order of an exchange): an exchange goes from received to context
\* gathered to streaming to persisted and never back; its user turn is stored
\* by the step that leaves "gathered", ahead of anything the LLM sends; an
\* assistant turn is stored only by the step in which the token stream ends,
\* after the user turn and under the same turn_number.
C12_ExchangeOrder ==
    [][\A p \in Procs :
          LET new == SubSeq(hist', Len(hist) + 1, Len(hist'))
              users == {n \in DOMAIN new : new[n].role = "user"}
              assistants == {n \in DOMAIN new : new[n].role = "assistant"}
          IN  /\ pc[p] = "idle" => pc'[p] \in {"idle", "gathered"}
              /\ pc[p] = "gathered" => pc'[p] \in {"gathered", "streaming", "idle"}
              /\ pc[p] = "streaming" => pc'[p] \in {"streaming", "idle"}
              /\ (pc[p] = "streaming" /\ pc'[p] = "streaming")
                    => turn_number'[p] = turn_number[p]
              /\ (pc[p] = "gathered" /\ pc'[p] # "gathered") =>
                    /\ users \subseteq {1}
                    /\ \A n \in users : new[n].message = question[p]
                    /\ \A n \in DOMAIN new : new[n].turn_number = last'.turn_number
                    /\ pc'[p] = "streaming" =>
                          (assistants = {} /\ turn_number'[p] = last'.turn_number)
                    /\ assistants # {} => last'.outcome = "persisted"
              /\ (pc[p] = "streaming" /\ last'.op = "stream") =>
                    /\ users = {}
                    /\ assistants # {} =>
                          /\ last'.outcome = "persisted"
                          /\ SkipEmpty(llm[p]) = << >>
                          /\ \A n \in assistants :
                                new[n].turn_number = turn_number[p]]_vars

\* An exchange that streamed tokens has ended with both its turns stored, the
\* user turn first, under one turn_number.
C12_Witness ==
    /\ last.op = "stream"
    /\ last.outcome = "persisted"
    /\ last.body # << >>
    /\ Len(hist) = 2
    /\ hist[1].role = "user"
    /\ hist[2].role = "assistant"
    /\ hist[2].message # << >>
    /\ hist[1].turn_number = hist[2].turn_number

\* C13 (interrupted stream): when the LLM stream raises or the caller goes
\* away mid-stream, the exchange is over with the tokens forwarded so far and
\* nothing more, and no assistant turn is stored for it: the step adds at most
\* the user turn of the exchange.
C13_InterruptedNotPersisted ==
    [][\A p \in Procs :
          (/\ pc[p] # "idle"
           /\ pc'[p] = "idle"
           /\ last'.op = "stream"
           /\ last'.outcome \in {"interrupted", "cancelled"}) =>
              LET new == SubSeq(hist', Len(hist) + 1, Len(hist'))
              IN  /\ last'.body = forwarded[p]
                  /\ forwarded'[p] = << >> /\ llm'[p] = << >>
                  /\ SubSeq(hist', 1, Len(hist)) = hist
                  /\ \A n \in DOMAIN new : new[n].role = "user"
                  /\ pc[p] = "streaming" => hist' = hist
                  /\ kb' = kb]_vars

\* The LLM stream raised after a token was forwarded; the history holds the
\* user turn of the exchange and nothing else.
C13_Witness ==
    /\ last.op = "stream"
    /\ last.outcome = "interrupted"
    /\ last.body # << >>
    /\ Len(hist) = 1
    /\ hist[1].role = "user"

\* The strings of a sequence, one after the other.
RECURSIVE Concat(_)
Concat(tokens) ==
    IF tokens = << >> THEN << >> ELSE Head(tokens) \o Concat(Tail(tokens))

\* The non-empty content fragments of an LLM stream, in the order the LLM
\* sends them, up to the end of the stream or to the chunk that raises.
RECURSIVE Fragments(_)
Fragments(chunks) ==
    IF chunks = << >> \/ Head(chunks).err THEN << >>
    ELSE IF Head(chunks).content = << >> THEN Fragments(Tail(chunks))
    ELSE << Head(chunks).content >> \o Fragments(Tail(chunks))

\* C14 (token order): every yield forwards the next non-empty content fragment
\* of the LLM stream, in the order of the stream, none twice and none passed
\* over; the response accumulated is the concatenation of the tokens
\* forwarded; when the stream completes the assistant message stored is the
\* concatenation, in order, of exactly the tokens that were forwarded.
C14_TokensInOrder ==
    [][\A p \in Procs :
          /\ \A n \in DOMAIN forwarded'[p] : forwarded'[p][n] # << >>
          /\ full_response'[p] = Concat(forwarded'[p])
          /\ (pc[p] = "gathered" /\ pc'[p] = "streaming") =>
                \E stream \in LlmStreams :
                    /\ Fragments(stream) # << >>
                    /\ forwarded'[p] = << Head(Fragments(stream)) >>
                    /\ Fragments(llm'[p]) = Tail(Fragments(stream))
          /\ (pc[p] = "streaming" /\ pc'[p] = "streaming" /\ last'.op = "stream") =>
                /\ Fragments(llm[p]) # << >>
                /\ forwarded'[p] = Append(forwarded[p], Head(Fragments(llm[p])))
                /\ Fragments(llm'[p]) = Tail(Fragments(llm[p]))
          /\ (pc[p] = "streaming" /\ pc'[p] = "streaming" /\ last'.op # "stream") =>
                (forwarded'[p] = forwarded[p] /\ llm'[p] = llm[p])
          /\ (pc[p] # "idle" /\ pc'[p] = "idle" /\ last'.op = "stream"
                /\ last'.outcome = "persisted") =>
                LET new == SubSeq(hist', Len(hist) + 1, Len(hist'))
                IN  /\ last'.body = forwarded[p]
                    /\ Fragments(llm[p]) = << >>
                    /\ \A n \in DOMAIN new :
                          new[n].role = "assistant"
                              => new[n].message = Concat(last'.body)]_vars

\* A stream of an empty fragment and two tokens has completed: both tokens
\* were forwarded and the assistant message stored is their concatenation.
C14_Witness ==
    /\ last.op = "stream"
    /\ last.outcome = "persisted"
    /\ Len(last.body) = 2
    /\ hist # << >>
    /\ hist[Len(hist)].role = "assistant"
    /\ hist[Len(hist)].message = Concat(last.body)

\* C15 (search failures degrade): whatever fails during search_knowledge_base,
\* the embedding provider or the vector store, the /chat request is not
\* aborted: it is answered with the stream (status 200) and the exchange goes
\* on with its context gathered.
C15_SearchFailureNeverAborts ==
    last.op = "chat" => (last.status = 200 /\ \E p \in Procs : pc[p] = "gathered")

\* What the loop of stream_response comes to next on the chunks that are
\* left: a token to yield, the exception of the stream, or the end.
RECURSIVE NextEvent(_)
NextEvent(chunks) ==
    IF chunks = << >> THEN "persisted"
    ELSE IF Head(chunks).err THEN "interrupted"
    ELSE IF Head(chunks).content = << >> THEN NextEvent(Tail(chunks))
    ELSE "yield"

\* C16 (history write failures are not fatal): whether the store of the user
\* turn or of the assistant turn fails or not, a run of the generator comes to
\* what the LLM stream alone decides (the next token, the end, or the error
\* of the stream), with the same token forwarded; the only effect of a failed
\* store is that its turn is not in the collection.
C16_StoreFailureNotFatal ==
    [][last'.op = "stream" => \A p \in {r \in Procs : pc[r] # "idle"} :
          /\ pc[p] = "gathered" =>
             \A stU \in Outcomes, stream \in LlmStreams :
             \A stA \in AssistantStoreOutcomes(stream) :
                stream_start(p, stU, stream, stA) =>
                    /\ last'.outcome = NextEvent(stream)
                    /\ last'.outcome = "yield" =>
                          /\ pc'[p] = "streaming"
                          /\ forwarded'[p] = << Head(Fragments(stream)) >>
                    /\ Len(hist') = Len(hist)
                          + (IF stU = "ok" THEN 1 ELSE 0)
                          + (IF last'.outcome = "persisted" /\ stA = "ok" THEN 1 ELSE 0)
          /\ pc[p] = "streaming" =>
             \A stA \in AssistantStoreOutcomes(llm[p]) :
                stream_next(p, stA) =>
                    /\ last'.outcome = NextEvent(llm[p])
                    /\ last'.outcome = "yield" =>
                          /\ pc'[p] = "streaming"
                          /\ forwarded'[p]
                               = Append(forwarded[p], Head(Fragments(llm[p])))
                    /\ last'.outcome = "persisted" => last'.body = forwarded[p]
                    /\ Len(hist') = Len(hist)
                          + (IF last'.outcome = "persisted" /\ stA = "ok" THEN 1 ELSE 0)]_vars

\* The store of the user turn failed and the exchange streamed its tokens to
\* the end all the same: the history holds the assistant turn alone.
C16_Witness ==
    /\ last.op = "stream"
    /\ last.outcome = "persisted"
    /\ last.body # << >>
    /\ Len(hist) = 1
    /\ hist[1].role = "assistant"
    /\ hist[1].message = Concat(last.body)

\* The atoms of a string.
Atoms(s) == {s[n] : n \in DOMAIN s}
\* The position of the first atom a of s.
IndexOf(s, a) == CHOOSE i \in DOMAIN s : s[i] = a /\ \A j \in 1..(i - 1) : s[j] # a
\* The block of a prompt between header a and the piece b that follows it:
\* what stands between the line break after a and the line break before b.
Block(s, a, b) == SubSeq(s, IndexOf(s, a) + 2, IndexOf(s, b) - 2)

\* C17 (prompt assembly): the prompt has the no-history marker exactly when
\* the chat context is empty and the no-knowledge-base-context marker exactly
\* when the search result is empty; a context that is not empty stands in its
\* block unchanged; the question block is the raw question.
C17_PromptAssembly ==
    last.op = "prompt" =>
        LET pr == last.prompt
            history == Block(pr, CHAT_HISTORY_HEADER, KB_CONTEXT_HEADER)
            knowledge == Block(pr, KB_CONTEXT_HEADER, QUESTION_HEADER)
            asked == Block(pr, QUESTION_HEADER, PROMPT_CLOSING)
        IN  /\ (NO_HISTORY_MARKER \in Atoms(pr)) <=> (last.chat_context = << >>)
            /\ (NO_KB_CONTEXT_MARKER \in Atoms(pr)) <=> (last.kb_context = << >>)
            /\ history = (IF last.chat_context = << >> THEN <<NO_HISTORY_MARKER>>
                          ELSE last.chat_context)
            /\ knowledge = (IF last.kb_context = << >> THEN <<NO_KB_CONTEXT_MARKER>>
                            ELSE last.kb_context)
            /\ asked = last.question

\* A question with no prior history and no matching chunk: both markers.
C17_Witness ==
    /\ last.op = "prompt"
    /\ last.chat_context = << >>
    /\ last.kb_context = << >>
    /\ last.question # << >>
    /\ NO_HISTORY_MARKER \in Atoms(last.prompt)
    /\ NO_KB_CONTEXT_MARKER \in Atoms(last.prompt)

\* C18 (turn-number race): two exchanges of one session that are streaming at
\* once and fetched the same history have stored their user turns under one
\* and the same turn_number: the numbers of distinct exchanges are not
\* distinct.
C18_TurnNumberRace ==
    \A p \in Procs, q \in Procs :
        (/\ p # q
         /\ pc[p] = "streaming" /\ pc[q] = "streaming"
         /\ session_id[p] = session_id[q]
         /\ chat_turns[p] = chat_turns[q]) =>
            /\ turn_number[p] = turn_number[q]
            /\ \E i \in DOMAIN hist, j \in DOMAIN hist :
                  /\ i # j
                  /\ hist[i].role = "user" /\ hist[i].message = question[p]
                  /\ hist[j].role = "user" /\ hist[j].message = question[q]
                  /\ hist[i].turn_number = turn_number[p]
                  /\ hist[j].turn_number = turn_number[p]

\* Two exchanges of the session with different questions fetched the history
\* before either stored its user turn; both user turns are stored under 1.
C18_Witness ==
    /\ pc[1] = "streaming" /\ pc[2] = "streaming"
    /\ session_id[1] = session_id[2]
    /\ question[1] # question[2]
    /\ chat_turns[1] = << >> /\ chat_turns[2] = << >>
    /\ Len(hist) = 2
    /\ hist[1].role = "user" /\ hist[2].role = "user"
    /\ hist[1].message # hist[2].message
    /\ hist[1].turn_number = hist[2].turn_number

\* C19 (upserts never overwrite): an upload leaves every point of the
\* knowledge base as it was; what it adds is nothing when it fails and, when
\* it writes, one point per chunk of a batch, with the text of the chunk and
\* the session of the upload, also when the same chunk is stored again; a
\* session deletion takes away points of its session only, and no other step
\* touches the knowledge base.
C19_UpsertsNeverOverwrite ==
    [][/\ last'.op = "upload_document" =>
             LET new == SubSeq(kb', Len(kb) + 1, Len(kb'))
             IN  /\ Len(kb') >= Len(kb)
                 /\ SubSeq(kb', 1, Len(kb)) = kb
                 /\ last'.wrote <=> (new # << >>)
                 /\ last'.status # 200 => new = << >>
                 /\ \E documents \in DocBatches :
                       /\ Len(new) \in {0, Len(documents)}
                       /\ \A n \in DOMAIN new :
                             /\ new[n].text = documents[n]
                             /\ new[n].session_id = last'.session_id
       /\ last'.op = "end_session" =>
             \A i \in DOMAIN kb :
                 kb[i].session_id # last'.session_id
                     => Count(kb', kb[i]) = Count(kb, kb[i])
       /\ last'.op \notin {"upload_document", "end_session"} => kb' = kb]_vars

\* The same chunk was uploaded twice to one session: the knowledge base holds
\* both points.
C19_Witness ==
    /\ last.op = "upload_document"
    /\ last.wrote
    /\ Len(kb) = 2
    /\ kb[1] = kb[2]

\* C20 (empty batch): an upload whose extraction gives no chunk calls neither
\* the embedding provider nor the store, so whatever their state it writes
\* nothing, raises nothing, leaves both collections as they were and is
\* answered as a success.
C20_EmptyBatchNoOp ==
    [][last'.op = "upload_document" =>
       \A emb \in Outcomes, st \in Outcomes :
          upload_document(<< >>, emb, st) =>
              /\ kb' = kb /\ hist' = hist
              /\ ~last'.wrote
              /\ last'.status = 200]_vars

\* An upload without chunks was answered as a success and wrote nothing, the
\* knowledge base holding the points it held.
C20_Witness ==
    /\ last.op = "upload_document"
    /\ ~last.wrote
    /\ last.status = 200
    /\ kb # << >>

\* The words of a sequence of strings, one string after the other.
WordsOf(strings) == Concat([n \in DOMAIN strings |-> Split(strings[n])])
\* The ways to cut a sequence of n elements into m groups of consecutive
\* elements, none of them empty: c[k] is where group k ends.
Cuts(n, m) ==
    { c \in [0..m -> 0..n] :
        c[0] = 0 /\ c[m] = n /\ \A k \in 1..m : c[k - 1] < c[k] }
Group(sentences, c, k) == SubSeq(sentences, c[k - 1] + 1, c[k])
\* How many words at the head of chunk k were carried over from chunk k - 1.
CarriedCount(chunks, k, overlap) ==
    IF k = 1 \/ overlap <= 0 THEN 0
    ELSE LET n == Len(Split(chunks[k - 1]))
         IN  IF overlap < n THEN overlap ELSE n
\* The words of chunk k without the words carried over.
OwnWords(chunks, k, overlap) ==
    LET words == Split(chunks[k])
    IN  SubSeq(words, CarriedCount(chunks, k, overlap) + 1, Len(words))

\* C24 (extraction errors): a file whose extraction raises at some unit, a
\* page of a PDF included, contributes no chunk at all to what extract_text
\* returns.
C24_FailedFileContributesNothing ==
    last.op = "extract_text" =>
        ((\E n \in DOMAIN last.file.units : last.file.units[n].err)
            => last.documents = << >>)

\* C25 (chunk size bound): every chunk chunk_text returns has at most
\* chunk_size words, unless it is one sentence that alone has more.
C25_ChunkSizeBound ==
    last.op = "chunk_text" =>
        LET sentences == Sentences(last.text, last.punkt)
        IN  \A k \in DOMAIN last.chunks :
                \/ Len(Split(last.chunks[k])) <= last.chunk_size
                \/ \E n \in DOMAIN sentences :
                      /\ last.chunks[k] = sentences[n]
                      /\ Len(Split(sentences[n])) > last.chunk_size

\* C26 (nothing lost, nothing reordered): the words of the chunks, without
\* the words each chunk after the first carries over from the one before it,
\* are in order the words of the sentences of the text (the words of the
\* text itself when the sentence tokenizer is there); the sentences go to the
\* chunks whole and in order, each to one chunk.
C26_ChunkingLosesNothing ==
    last.op = "chunk_text" =>
        LET chunks == last.chunks
            sentences == Sentences(last.text, last.punkt)
            own == [k \in DOMAIN chunks |-> OwnWords(chunks, k, last.overlap)]
        IN  /\ Concat(own) = WordsOf(sentences)
            /\ last.punkt => WordsOf(sentences) = Split(last.text)
            /\ \E c \in Cuts(Len(sentences), Len(chunks)) :
                  \A k \in DOMAIN chunks : own[k] = WordsOf(Group(sentences, c, k))

\* A text of three sentences was cut into chunks with words carried over:
\* the second chunk starts with the last word of the first.
C26_Witness ==
    /\ last.op = "chunk_text"
    /\ last.overlap > 0
    /\ Len(Sentences(last.text, last.punkt)) = 3
    /\ Len(last.chunks) >= 2
    /\ Split(last.chunks[2])[1] = Split(last.chunks[1])[Len(Split(last.chunks[1]))]

\* C27 (minimum-character floor): no chunk chunk_text returns and no chunk
\* extract_text returns for an upload has fewer than 10 characters.
C27_MinimumCharacterFloor ==
    /\ last.op = "chunk_text" =>
          \A k \in DOMAIN last.chunks : CharLen(last.chunks[k]) >= 10
    /\ last.op = "extract_text" =>
          \A k \in DOMAIN last.documents : CharLen(last.documents[k]) >= 10

\* C28 (chunker edge cases): the empty text gives no chunk; a sentence with
\* more than chunk_size words is a chunk by itself, without another sentence
\* and without words carried over, wherever it stands in the text.
C28_OversizedSentenceAlone ==
    last.op = "chunk_text" =>
        LET chunks == last.chunks
            sentences == Sentences(last.text, last.punkt)
        IN  /\ last.text = << >> => chunks = << >>
            /\ \E c \in Cuts(Len(sentences), Len(chunks)) :
                  \A k \in DOMAIN chunks :
                      /\ OwnWords(chunks, k, last.overlap) = WordsOf(Group(sentences, c, k))
                      /\ (\E n \in (c[k - 1] + 1)..c[k] :
                              Len(Split(sentences[n])) > last.chunk_size)
                            => chunks[k] = sentences[c[k]] /\ c[k] = c[k - 1] + 1

\* C29 (overlap seeding): a chunk after the first starts where the chunk
\* before it was closed because the next sentence made it longer than
\* chunk_size; with overlap > 0 it is the last min(overlap, n) words of the
\* closed chunk of n words, in their order, then that sentence and the
\* sentences that follow it in the chunk, joined by blanks; with overlap 0 it
\* is these sentences alone.
C29_OverlapSeeding ==
    last.op = "chunk_text" =>
        LET chunks == last.chunks
            sentences == Sentences(last.text, last.punkt)
        IN  \E c \in Cuts(Len(sentences), Len(chunks)) :
                \A k \in DOMAIN chunks :
                    LET group == Group(sentences, c, k)
                        closed == Split(chunks[k - 1])
                        n == Len(closed)
                        carried == IF last.overlap < n THEN last.overlap ELSE n
                        seed == SubSeq(closed, n - carried + 1, n)
                    IN  IF k = 1 THEN chunks[k] = Join(<<SP>>, group)
                        ELSE /\ n + Len(Split(group[1])) > last.chunk_size
                             /\ chunks[k] =
                                  Join(<<SP>>, (IF last.overlap > 0
                                                 THEN << Join(<<SP>>, seed) >>
                                                 ELSE << >>) \o group)

\* A chunk of three words was closed with overlap 1: the next chunk starts
\* with its last word, which is not its first.
C29_Witness ==
    /\ last.op = "chunk_text"
    /\ last.overlap = 1
    /\ Len(last.chunks) >= 2
    /\ Len(Split(last.chunks[1])) = 3
    /\ Split(last.chunks[2])[1] = Split(last.chunks[1])[3]
    /\ Split(last.chunks[2])[1] # Split(last.chunks[1])[1]

\* C21 (search result): search_knowledge_base returns the texts of at most
\* top_k chunks of the session, joined by blank lines, best match first, and
\* no chunk of the session left out matches better than one returned; for an
\* empty or blank query it returns "" without calling the embedding provider
\* or the store, whatever their state; for a session without chunks it
\* returns "" and raises nothing.
C21_SearchTopK ==
    last.op = "search_knowledge_base" =>
        LET r == last.result
            own == SessionFilter(kb, last.session_id)
            qv == Embedding(last.query_text)
            score(x) == Score(qv, Embedding(x.text))
            blank == Strip(last.query_text) = << >>
        IN  /\ Len(r.hits) <= last.top_k
            /\ \A i, j \in DOMAIN r.hits : i < j => score(r.hits[i]) >= score(r.hits[j])
            /\ r.value = Join(<<NL, NL>>, HitTexts(r.hits))
            /\ blank => (~r.raised /\ r.value = << >> /\ r.calls = {})
            /\ (own = {} /\ last.emb = "ok") => (~r.raised /\ r.value = << >>)
            /\ (~blank /\ last.emb = "ok" /\ last.st = "ok") =>
                  /\ ~r.raised
                  /\ Len(r.hits) = (IF Cardinality(own) < last.top_k
                                      THEN Cardinality(own) ELSE last.top_k)
                  /\ \A n \in DOMAIN r.hits :
                        /\ r.hits[n].session_id = last.session_id
                        /\ Count(r.hits, r.hits[n]) <= Count(kb, r.hits[n])
                  /\ \A i \in own : \A n \in DOMAIN r.hits :
                        score(kb[i]) > score(r.hits[n])
                            => \E k \in 1..(n - 1) : r.hits[k] = kb[i]

\* A search with top_k = 2 in a session of three chunks, the best of which
\* was stored last: two hits, the better one first.
C21_Witness ==
    /\ last.op = "search_knowledge_base"
    /\ last.top_k = 2
    /\ Cardinality(SessionFilter(kb, last.session_id)) = 3
    /\ Len(last.result.hits) = 2
    /\ last.result.hits[1] = kb[3]
    /\ last.result.hits[1] # last.result.hits[2]

\* C22 (destroyed only by session deletion): a step takes a point away from
\* a collection only if it is the deletion of the session of that point; the
\* start of the process in particular takes nothing away.
C22_DestroyedOnlyBySessionDeletion ==
    [][/\ \A i \in DOMAIN kb :
             Count(kb', kb[i]) < Count(kb, kb[i])
                 => (last'.op = "end_session" /\ last'.session_id = kb[i].session_id)
       /\ \A i \in DOMAIN hist :
             Count(hist', hist[i]) < Count(hist, hist[i])
                 => (last'.op = "end_session"
                     /\ last'.session_id = hist[i].session_id)]_vars

\* C23 (default session): an upload that sends no session_id stores its
\* chunks under the default session id; a search with that id gets them, a
\* search with another id gets none of them; a /chat request that sends no
\* session_id runs under that same default id.
C23_DefaultSession ==
    [][/\ last'.op = "upload_document_begin" =>
             (upload_request(NoSessionId) => upload'.session_id = DefaultSession)
       /\ (last'.op = "upload_document" /\ upload.session_id = DefaultSession) =>
             \A documents \in DocBatches :
                 upload_document(documents, "ok", "ok") =>
                     LET new == SubSeq(kb', Len(kb) + 1, Len(kb'))
                     IN  /\ Len(new) = Len(documents)
                         /\ \A n \in DOMAIN new : new[n].session_id = DefaultSession
                         /\ \A q \in Questions :
                             \A r \in search_knowledge_base(kb', q, DefaultSession,
                                                             TOP_K, "ok", "ok") :
                             \A n \in DOMAIN new :
                                 \E k \in DOMAIN r.hits : r.hits[k] = new[n]
                         /\ \A q \in Questions, sid \in {"A", UuidName(0)} :
                             \A r \in search_knowledge_base(kb', q, sid,
                                                             TOP_K, "ok", "ok") :
                             \A k \in DOMAIN r.hits :
                                 r.hits[k].session_id # DefaultSession
       /\ last'.op = "chat" =>
             \A p \in MainProcs, q \in Questions :
                 chat(p, q, NoSessionId, "ok", "ok", <<"ok", "ok", "ok">>)
                     => session_id'[p] = DefaultSession]_vars

\* The points of session sid in collection coll, in the order of the
\* collection.
PointsOf(coll, sid) == SelectSeq(coll, LAMBDA x : x.session_id = sid)

\* C30 (deletion confined to its session): a session deletion, whether both
\* its store calls go through or not, leaves the points of every other
\* session in both collections as they were, and a search or a history fetch
\* for another session (by the ordered scroll or by the unordered one) has
\* the same possible results after it as before.
C30_DeletionConfined ==
    [][last'.op = "end_session" =>
          \/ (kb' = kb /\ hist' = hist)
          \/ \A sid \in Sessions \ {last'.session_id} :
                /\ PointsOf(kb', sid) = PointsOf(kb, sid)
                /\ PointsOf(hist', sid) = PointsOf(hist, sid)
                /\ \/ kb' = kb
                   \/ \A q \in Questions :
                      { <<r.value, r.hits>> :
                          r \in search_knowledge_base(kb', q, sid, TOP_K, "ok", "ok") }
                      = { <<r.value, r.hits>> :
                          r \in search_knowledge_base(kb, q, sid, TOP_K, "ok", "ok") }
                /\ \/ hist' = hist
                   \/ \A q \in Questions,
                      att \in { <<"ok", "ok", "ok">>, <<"raise", "raise", "ok">> } :
                      { <<r.value, r.turns>> :
                          r \in retrieve_chat_context(hist', sid, q, MAX_TURNS,
                                                      att[1], att[2], att[3]) }
                      = { <<r.value, r.turns>> :
                          r \in retrieve_chat_context(hist, sid, q, MAX_TURNS,
                                                      att[1], att[2], att[3]) }]_vars

\* Session "A" was deleted while one of its exchanges was streaming: its user
\* turn is gone from the history, and the chunk of the other session is still
\* in the knowledge base.
C30_Witness ==
    /\ last.op = "end_session"
    /\ last.success
    /\ last.session_id = "A"
    /\ pc[1] = "streaming"
    /\ session_id[1] = "A"
    /\ NoneOf(hist, "A")
    /\ \E i \in DOMAIN kb : kb[i].session_id = DefaultSession

\* C31 (a deleted session stays empty): when a session deletion has returned
\* True, the next run of the generator of an exchange that was in flight
\* during the deletion, and the resumption of an upload that waited for its
\* file during the deletion, write no record of the deleted session.
C31_DeletedSessionStaysEmpty ==
    [][(/\ last.op = "end_session"
        /\ last.success
        /\ last'.op \in {"stream", "upload_document"})
          => (NoneOf(hist', last.session_id) /\ NoneOf(kb', last.session_id))]_vars

\* C32 (deletion is not atomic): when delete_session_data returns False the
\* knowledge base is as it was, and either the chat history delete failed,
\* the knowledge base delete was not attempted and the chat history is as it
\* was too, or the chat history delete went through, no turn of the session
\* is left, and the knowledge base delete failed; chunks are never removed
\* by a deletion that returns False.
C32_DeleteOrder ==
    [][(last'.op = "end_session" /\ ~last'.success) =>
          /\ kb' = kb
          /\ ~last'.kb_done
          /\ \/ (~last'.chat_done /\ hist' = hist)
             \/ (/\ last'.chat_done
                 /\ NoneOf(hist', last'.session_id)
                 /\ \A sid \in Sessions \ {last'.session_id} :
                       PointsOf(hist', sid) = PointsOf(hist, sid))]_vars

\* A deletion returned False while an exchange of the session was streaming:
\* no turn of the session is left, its chunk is still there.
C32_Witness ==
    /\ last.op = "end_session"
    /\ ~last.success
    /\ last.chat_done
    /\ pc[1] = "streaming"
    /\ session_id[1] = last.session_id
    /\ NoneOf(hist, last.session_id)
    /\ \E i \in DOMAIN kb : kb[i].session_id = last.session_id

\* C33 (user before assistant): in the history an exchange is given, two
\* turns that are the user turn and the assistant turn of one exchange (the
\* only two records of the collection with their turn_number) come user
\* first, whatever order the store returned them in.
C33_UserBeforeAssistant ==
    \A p \in Procs :
        \A i, j \in DOMAIN chat_turns[p] :
            (/\ i < j
             /\ chat_turns[p][i].turn_number = chat_turns[p][j].turn_number
             /\ Cardinality({n \in DOMAIN hist :
                                hist[n].turn_number = chat_turns[p][i].turn_number}) = 2)
                => ~(chat_turns[p][i].role = "assistant" /\ chat_turns[p][j].role = "user")

====
